---- MODULE Spec2Model ----
(***************************************************************************)
(* Temporal alignment and normalization engine of the Musk/Dogecoin        *)
(* dashboard: the minute-floored join of tweets against price candles      *)
(* (calculate_avg_price_at_tweet_time), the per-tweet normalized window    *)
(* (_process_single_tweet), the loop of create_tweet_impact_figure that    *)
(* collects the windows and the per-tweet peaks, and the mean impact curve *)
(* with its peak (_add_average_trend).                                     *)
(*                                                                         *)
(* Data frames are sequences of rows.  A float is modelled as an exact     *)
(* fraction [num, den]; IEEE division by zero gives +inf (1/0) or NaN      *)
(* (0/0), as pandas does without raising.  A missing value in a float      *)
(* column of whole prices (the left join's unmatched rows) is NaN == -1.   *)
(* An optional value (None or a value) is a sequence of length 0 or 1.     *)
(***************************************************************************)
EXTENDS Integers, Sequences, FiniteSets, TLC

\* ---------------------------------------------------------------- bounds
MaxStock == 3
MaxTweets == 2
MaxRows == 2

\* ------------------------------------------------------ program constants
RELATIVE_TIME_SPREAD_HOURS == 6 * 3600
SecondsPerMinute == 60
SecondsPerHour == 3600

\* ------------------------------------------------------------ input space
\* T0 is the minute of the reference tweet.  Candles are drawn from the
\* epoch seconds on the two bounds of the +-6h window of T0 (which are also
\* equally far from T0), and just before, at and just after T0 (the last two
\* in the same minute).  Tweets are drawn from the minute of T0, the next
\* minute, and the minute six hours after T0, whose window starts one second
\* after the candle just before T0 and shares relative offsets with the
\* window of T0.  Three prices give every order and equality pattern of
\* three candles, and a zero price.
T0 == 361 * 60
StockTimes ==
    { T0 - RELATIVE_TIME_SPREAD_HOURS, T0 - 1, T0, T0 + 10,
      T0 + RELATIVE_TIME_SPREAD_HOURS }
EventTimes == { T0 + 5, T0 + 65, T0 + RELATIVE_TIME_SPREAD_HOURS + 5 }
Prices == { 0, 1, 2 }

None == << >>
Some(x) == << x >>
NaN == -1

\* --------------------------------------------------------------- helpers
Abs(x) == IF x < 0 THEN -x ELSE x

RECURSIVE GCD(_, _)
GCD(a, b) == IF b = 0 THEN a ELSE GCD(b, a % b)

\* Float division a / b of two whole numbers, b >= 0, as a reduced fraction;
\* x / 0 is +inf (1/0) for x > 0 and NaN (0/0) for x = 0.
Div(a, b) ==
    IF b = 0
    THEN [num |-> IF a = 0 THEN 0 ELSE 1, den |-> 0]
    ELSE LET g == GCD(Abs(a), b)
         IN  [num |-> a \div g, den |-> b \div g]

IsNaN(x) == x.num = 0 /\ x.den = 0
IsInf(x) == x.num # 0 /\ x.den = 0
\* IEEE comparisons: every comparison with NaN is false.
Leq(x, y) == ~IsNaN(x) /\ ~IsNaN(y) /\ x.num * y.den <= y.num * x.den
Gt(x, y) == ~IsNaN(x) /\ ~IsNaN(y) /\ x.num * y.den > y.num * x.den
Zero == [num |-> 0, den |-> 1]

\* Mutant: the timestamp is rounded to the nearest minute.
RoundMin(x) == (x + 30) - ((x + 30) % SecondsPerMinute)

\* Timestamp.floor("min") / Series.dt.floor("min") on whole epoch seconds.
FloorMin(x) == x - (x % SecondsPerMinute)

\* Boolean-mask selection df[mask]: the rows whose position is in keep, in
\* the order of df.
RECURSIVE MaskPrefix(_, _, _)
MaskPrefix(df, keep, n) ==
    IF n = 0 THEN << >>
    ELSE IF n \in keep
         THEN Append(MaskPrefix(df, keep, n - 1), df[n])
         ELSE MaskPrefix(df, keep, n - 1)
Mask(df, keep) == MaskPrefix(df, keep, Len(df))

RECURSIVE SumSeq(_)
SumSeq(s) == IF s = << >> THEN 0 ELSE s[1] + SumSeq(Tail(s))

RECURSIVE Flatten(_)
Flatten(ss) == IF ss = << >> THEN << >> ELSE ss[1] \o Flatten(Tail(ss))

\* ------------------------------------------------------------ input frames
RECURSIVE SortedSeq(_)
SortedSeq(S) ==
    IF S = {} THEN << >>
    ELSE LET m == CHOOSE x \in S : \A y \in S : x <= y
         IN  << m >> \o SortedSeq(S \ {m})

\* Price tables: candles with unique, ascending timestamps.
StockFrames ==
    UNION { { [k \in 1..Cardinality(S) |->
                 [timestamp |-> SortedSeq(S)[k], open |-> p[SortedSeq(S)[k]]]]
              : p \in [S -> Prices] }
            : S \in { X \in SUBSET StockTimes : Cardinality(X) <= MaxStock } }

\* Tweet tables: whole epoch seconds in any order, repetitions allowed.  The
\* created_at column is the same instant as the timestamp column.
TweetFrames ==
    UNION { [1..n -> EventTimes] : n \in 0..MaxTweets }

VARIABLES
    stock_df, tweet_df,
    avg_pc, price_lookup, tweets_with_price, avg_val,
    pc, i, t_time, window_df, price_at_tweet,
    series_df, peak_info, all_normalized_series, max_vals,
    mean_impact, avg_trace, agg_peak

\* The date conversions: the local UTC offset of the process, the arguments
\* and results of the two convert_date_to_timestamp, and the column and the
\* result of convert_datetime_to_unix_timestamp.
VARIABLES
    tz_offset, date_string, date_format, ts_formatters, ts_processing,
    created_at, ts_column

\* The table utilities: the call being made (the function and its
\* arguments), the table it works on, its outcome and its position.
VARIABLES
    call, frame, ret, upc

\* The inline create_tweet_impact_figure of dash/pages/callbacks/callbacks.py,
\* run on the same two tables: the full_text column of the tweet table, which
\* it reads for the names of the traces (None where the text is missing),
\* its position, its loop counter, its lists and its aggregate.
VARIABLES
    full_text, inline_pc, inline_i, inline_all_normalized_series, inline_max_vals,
    inline_mean_impact, inline_avg_trace, inline_agg_peak

\* The dashboard process: the callbacks module it loaded, the heap of tables
\* (the module-level STOCK_DATA and TWEET_DATA and the tables the
\* invocations create) and the invocations of update_dashboard.
VARIABLES
    app_module, heap, calls

vars == << stock_df, tweet_df,
           avg_pc, price_lookup, tweets_with_price, avg_val,
           pc, i, t_time, window_df, price_at_tweet,
           series_df, peak_info, all_normalized_series, max_vals,
           mean_impact, avg_trace, agg_peak,
           tz_offset, date_string, date_format, ts_formatters,
           ts_processing, created_at, ts_column,
           call, frame, ret, upc,
           full_text, inline_pc, inline_i,
           inline_all_normalized_series, inline_max_vals, inline_mean_impact, inline_avg_trace,
           inline_agg_peak,
           app_module, heap, calls >>

dashboard_vars == << app_module, heap, calls >>

inline_vars == << full_text, inline_pc, inline_i,
                  inline_all_normalized_series, inline_max_vals, inline_mean_impact, inline_avg_trace,
                  inline_agg_peak >>

util_vars == << call, frame, ret, upc >>

date_vars == << tz_offset, date_string, date_format, ts_formatters,
                ts_processing, created_at, ts_column >>

avg_vars == << avg_pc, price_lookup, tweets_with_price, avg_val >>
impact_vars == << pc, i, t_time, window_df, price_at_tweet,
                  series_df, peak_info, all_normalized_series, max_vals,
                  mean_impact, avg_trace, agg_peak >>

\* ------------------------------------- calculate_avg_price_at_tweet_time
\* DataFrame({"align_dt": stock_minutes, "price": stock_df["open"]})
StockMinutes(df) ==
    [k \in 1..Len(df) |->
        [align_dt |-> FloorMin(df[k].timestamp), price |-> df[k].open]]

TweetMinutes(df) == [k \in 1..Len(df) |-> FloorMin(df[k])]

\* Mutant: the duplicates are not dropped.
DropDuplicatesKeepAll(df) == df

\* Mutant: drop_duplicates with keep="last".
DropDuplicatesKeepLast(df) ==
    Mask(df, { k \in 1..Len(df) :
                 \A j \in (k + 1)..Len(df) : df[j].align_dt # df[k].align_dt })

\* DataFrame.drop_duplicates(subset=["align_dt"]), keep="first".
DropDuplicates(df) ==
    Mask(df, { k \in 1..Len(df) :
                 \A j \in 1..(k - 1) : df[j].align_dt # df[k].align_dt })

\* Mutant: a left row without partner takes the first price of the index
\* (a nearest-style join) instead of a missing price.
MergeNearest(left, right) ==
    Flatten([k \in 1..Len(left) |->
        LET partners ==
                Mask(right, { j \in 1..Len(right) :
                                right[j].align_dt = left[k] })
        IN  IF partners = << >>
            THEN << [align_dt |-> left[k], price |-> right[1].price] >>
            ELSE partners])

\* pd.merge(left, right, on="align_dt", how="left"): one row per pair of a
\* left row and a right row with the same key, in left order; a left row
\* without partner gives one row with a missing price.
MergeLeft(left, right) ==
    Flatten([k \in 1..Len(left) |->
        LET partners ==
                Mask(right, { j \in 1..Len(right) :
                                right[j].align_dt = left[k] })
        IN  IF partners = << >>
            THEN << [align_dt |-> left[k], price |-> NaN] >>
            ELSE partners])

\* Series.mean() with skipna: NaN (None here) when no value is present.
Mean(df) ==
    LET present == Mask(df, { k \in 1..Len(df) : df[k].price # NaN })
        values == [k \in 1..Len(present) |-> present[k].price]
    IN  IF present = << >> THEN None
        ELSE Some(Div(SumSeq(values), Len(values)))

PriceLookup(df) == DropDuplicates(StockMinutes(df))

\* Mutant: the floored minutes are written into the passed price table
\* (stock_df["align_dt"] = stock_minutes) instead of a new table.
calculate_avg_price_at_tweet_time_in_place ==
    /\ pc # "loop"
    /\ avg_pc = "ready"
    /\ avg_pc' = "done"
    /\ IF tweet_df = << >> \/ stock_df = << >>
       THEN /\ avg_val' = Zero
            /\ UNCHANGED << price_lookup, tweets_with_price, stock_df >>
       ELSE /\ stock_df' =
                   [k \in 1..Len(stock_df) |->
                       [timestamp |-> stock_df[k].timestamp,
                        open |-> stock_df[k].open,
                        align_dt |-> FloorMin(stock_df[k].timestamp)]]
            /\ price_lookup' = PriceLookup(stock_df)
            /\ tweets_with_price' =
                   MergeLeft(TweetMinutes(tweet_df), price_lookup')
            /\ avg_val' =
                   IF Mean(tweets_with_price') = None
                   THEN Zero
                   ELSE Mean(tweets_with_price')[1]
    /\ UNCHANGED tweet_df
    /\ UNCHANGED impact_vars
    /\ UNCHANGED date_vars
    /\ UNCHANGED util_vars
    /\ UNCHANGED inline_vars
    /\ UNCHANGED dashboard_vars

\* update_dashboard calls it after create_tweet_impact_figure; it reads only
\* the two tables.
calculate_avg_price_at_tweet_time ==
    /\ pc # "loop"
    /\ avg_pc = "ready"
    /\ avg_pc' = "done"
    /\ IF tweet_df = << >> \/ stock_df = << >>
       THEN /\ avg_val' = Zero
            /\ UNCHANGED << price_lookup, tweets_with_price >>
       ELSE /\ price_lookup' = PriceLookup(stock_df)
            /\ tweets_with_price' =
                   MergeLeft(TweetMinutes(tweet_df), price_lookup')
            /\ avg_val' =
                   IF Mean(tweets_with_price') = None
                   THEN Zero
                   ELSE Mean(tweets_with_price')[1]
    /\ UNCHANGED << stock_df, tweet_df >>
    /\ UNCHANGED impact_vars
    /\ UNCHANGED date_vars
    /\ UNCHANGED util_vars
    /\ UNCHANGED inline_vars
    /\ UNCHANGED dashboard_vars

\* ------------------------------------------------ _process_single_tweet
\* Mutant: the bounds of the window are excluded.
WindowSliceExclusive(df, t) ==
    Mask(df, { k \in 1..Len(df) :
                 /\ df[k].timestamp > t - RELATIVE_TIME_SPREAD_HOURS
                 /\ df[k].timestamp < t + RELATIVE_TIME_SPREAD_HOURS })

\* Mutant: the price table is not sliced at all.
WindowSliceAll(df, t) == df

\* stock_data_full[(timestamp >= t - R) & (timestamp <= t + R)].copy()
WindowSlice(df, t) ==
    Mask(df, { k \in 1..Len(df) :
                 /\ df[k].timestamp >= t - RELATIVE_TIME_SPREAD_HOURS
                 /\ df[k].timestamp <= t + RELATIVE_TIME_SPREAD_HOURS })

\* window_df[window_df["timestamp"] == t_time]
ExactRows(df, t) ==
    Mask(df, { k \in 1..Len(df) : df[k].timestamp = t })

\* window_df.iloc[(timestamp - t_time).abs().argsort()[:1]]: the positions a
\* sort by distance can put first.  argsort's default kind is not a stable
\* sort, so every row at the least distance is a possible outcome.
NearestPositions(df, t) ==
    { k \in 1..Len(df) :
        \A j \in 1..Len(df) :
            Abs(df[k].timestamp - t) <= Abs(df[j].timestamp - t) }

\* Mutant: the anchor is read from the first row of the window.
TweetPriceRowsHead(df, t) == { df[1] }

\* The rows tweet_price_row["open"].iloc[0] can be read from.
TweetPriceRows(df, t) ==
    IF ExactRows(df, t) # << >>
    THEN { ExactRows(df, t)[1] }
    ELSE { df[k] : k \in NearestPositions(df, t) }

\* window_df with the two derived columns.
Normalize(df, t, anchor) ==
    [k \in 1..Len(df) |->
        [timestamp |-> df[k].timestamp,
         open |-> df[k].open,
         normalized_price |-> Div(df[k].open, anchor),
         relative_hours |-> Div(df[k].timestamp - t, SecondsPerHour)]]

\* Mutant: the point at the tweet itself counts as after the tweet.
PositiveRowsOrZero(df) ==
    Mask(df, { k \in 1..Len(df) : Leq(Zero, df[k].relative_hours) })

\* window_df[window_df["relative_hours"] > 0]
PositiveRows(df) ==
    Mask(df, { k \in 1..Len(df) : Gt(df[k].relative_hours, Zero) })

\* Series.max() / Series.idxmax() with skipna: the positions that hold the
\* greatest value that is not NaN; empty when every value is NaN.
MaxPositions(df) ==
    { k \in 1..Len(df) :
        /\ ~IsNaN(df[k].normalized_price)
        /\ \A j \in 1..Len(df) :
              IsNaN(df[j].normalized_price)
              \/ Leq(df[j].normalized_price, df[k].normalized_price) }

\* idxmax returns the first position of the maximum.
IdxMax(df) ==
    CHOOSE k \in MaxPositions(df) : \A j \in MaxPositions(df) : k <= j

\* Mutant: only the points after the tweet are returned.
ProjectPositive(df) ==
    [k \in 1..Len(PositiveRows(df)) |->
        [relative_hours |-> PositiveRows(df)[k].relative_hours,
         normalized_price |-> PositiveRows(df)[k].normalized_price]]

\* window_df[["relative_hours", "normalized_price"]]
Project(df) ==
    [k \in 1..Len(df) |->
        [relative_hours |-> df[k].relative_hours,
         normalized_price |-> df[k].normalized_price]]

\* One turn of the loop of create_tweet_impact_figure: the call of
\* _process_single_tweet for the next tweet and the two appends after it.
\* idxmax over values that are all NaN has no label to return and the
\* lookup by label raises: the exception leaves the loop.
ProcessSingleTweet ==
    /\ pc = "loop"
    /\ i < Len(tweet_df)
    /\ i' = i + 1
    /\ t_time' = FloorMin(tweet_df[i + 1])
    /\ LET slice == WindowSlice(stock_df, t_time')
       IN  IF slice = << >>
           THEN /\ window_df' = slice
                /\ price_at_tweet' = None
                /\ series_df' = None
                /\ peak_info' = None
                /\ pc' = "loop"
                /\ UNCHANGED << all_normalized_series, max_vals >>
           ELSE \E row \in TweetPriceRows(slice, t_time') :
                /\ price_at_tweet' = Some(row.open)
                /\ window_df' = Normalize(slice, t_time', row.open)
                /\ LET positive_df == PositiveRows(window_df')
                   IN  IF positive_df = << >>
                       THEN /\ peak_info' = None
                            /\ series_df' = Some(Project(window_df'))
                            /\ pc' = "loop"
                       ELSE IF MaxPositions(positive_df) = {}
                       THEN /\ peak_info' = None
                            /\ series_df' = None
                            /\ pc' = "raised"
                       ELSE /\ peak_info' =
                                  Some([max_val |->
                                            positive_df[IdxMax(positive_df)]
                                                .normalized_price,
                                        peak_x |->
                                            positive_df[IdxMax(positive_df)]
                                                .relative_hours])
                            /\ series_df' = Some(Project(window_df'))
                            /\ pc' = "loop"
                /\ all_normalized_series' =
                       IF series_df' # None
                       THEN Append(all_normalized_series, series_df'[1])
                       ELSE all_normalized_series
                /\ max_vals' =
                       IF peak_info' # None
                       THEN Append(max_vals, peak_info'[1])
                       ELSE max_vals
    /\ UNCHANGED << mean_impact, avg_trace, agg_peak >>
    /\ UNCHANGED << stock_df, tweet_df >>
    /\ UNCHANGED avg_vars
    /\ UNCHANGED date_vars
    /\ UNCHANGED util_vars
    /\ UNCHANGED inline_vars
    /\ UNCHANGED dashboard_vars

\* ---------------------------------------------------- _add_average_trend
\* Sum of floats: anything plus +inf is +inf, anything plus NaN is NaN.
Add(x, y) ==
    IF IsNaN(x) \/ IsNaN(y) THEN [num |-> 0, den |-> 0]
    ELSE IF IsInf(x) \/ IsInf(y) THEN [num |-> 1, den |-> 0]
    ELSE Div(x.num * y.den + y.num * x.den, x.den * y.den)

RECURSIVE SumFloats(_)
SumFloats(s) == IF s = << >> THEN Zero ELSE Add(s[1], SumFloats(Tail(s)))

\* Mutant: Series.round(3), in units of 1e-4.
Round3Units(x) ==
    LET n == 1000 * x.num
        q == n \div x.den
        r == n - q * x.den
    IN  IF 2 * r < x.den THEN 10 * q
        ELSE IF 2 * r > x.den THEN 10 * (q + 1)
        ELSE IF q % 2 = 0 THEN 10 * q ELSE 10 * (q + 1)

\* Series.round(4) of a finite float, in units of 1e-4: the nearest whole
\* number of units, a tie going to the even one.
Round4Units(x) ==
    LET n == 10000 * x.num
        q == n \div x.den
        r == n - q * x.den
    IN  IF 2 * r < x.den THEN q
        ELSE IF 2 * r > x.den THEN q + 1
        ELSE IF q % 2 = 0 THEN q ELSE q + 1

Round4(x) == Div(Round4Units(x), 10000)

\* agg_df["relative_hours"] = agg_df["relative_hours"].round(4)
RoundHours(df) ==
    [k \in 1..Len(df) |->
        [relative_hours |-> Round4(df[k].relative_hours),
         normalized_price |-> df[k].normalized_price]]

\* Mutant: GroupBy.first(), the first value of the group that is not NaN.
GroupFirst(df, key) ==
    LET rows == Mask(df, { k \in 1..Len(df) :
                             /\ df[k].relative_hours = key
                             /\ ~IsNaN(df[k].normalized_price) })
    IN  IF rows = << >> THEN [num |-> 0, den |-> 0]
        ELSE rows[1].normalized_price

\* GroupBy.mean() of one group, skipna: NaN when no value is present.
GroupMean(df, key) ==
    LET rows == Mask(df, { k \in 1..Len(df) :
                             /\ df[k].relative_hours = key
                             /\ ~IsNaN(df[k].normalized_price) })
        total == SumFloats([k \in 1..Len(rows) |-> rows[k].normalized_price])
    IN  IF rows = << >> THEN [num |-> 0, den |-> 0]
        ELSE IF IsInf(total) THEN total
        ELSE Div(total.num, total.den * Len(rows))

\* Mutant: groupby(sort=False), one row per key in order of first appearance.
GroupByMeanUnsorted(df) ==
    LET firsts == Mask(df, { k \in 1..Len(df) :
                               \A j \in 1..(k - 1) :
                                   df[j].relative_hours # df[k].relative_hours })
    IN  [k \in 1..Len(firsts) |->
            [relative_hours |-> firsts[k].relative_hours,
             normalized_price |-> GroupMean(df, firsts[k].relative_hours)]]

\* agg_df.groupby("relative_hours")["normalized_price"].mean().reset_index():
\* one row per key, keys ascending.
GroupByMean(df) ==
    LET units == { Round4Units(df[k].relative_hours) : k \in 1..Len(df) }
        keys == SortedSeq(units)
    IN  [k \in 1..Len(keys) |->
            [relative_hours |-> Div(keys[k], 10000),
             normalized_price |-> GroupMean(df, Div(keys[k], 10000))]]

\* Mutant: no early return on an empty list, pd.concat([]) raises.
AddAverageTrendNoGuard ==
    /\ pc = "loop"
    /\ i = Len(tweet_df)
    /\ IF all_normalized_series = << >>
       THEN /\ pc' = "raised"
            /\ UNCHANGED << mean_impact, avg_trace, agg_peak >>
       ELSE /\ pc' = "done"
            /\ mean_impact' =
                   GroupByMean(RoundHours(Flatten(all_normalized_series)))
            /\ UNCHANGED << avg_trace, agg_peak >>
    /\ UNCHANGED << i, t_time, window_df, price_at_tweet, series_df,
                    peak_info, all_normalized_series, max_vals >>
    /\ UNCHANGED << stock_df, tweet_df >>
    /\ UNCHANGED avg_vars
    /\ UNCHANGED date_vars
    /\ UNCHANGED util_vars
    /\ UNCHANGED inline_vars
    /\ UNCHANGED dashboard_vars

\* The loop is over: _add_average_trend runs and create_tweet_impact_figure
\* returns.  The average trace and the peak line are drawn only when a bucket
\* after the tweet exists; idxmax over means that are all NaN raises.
AddAverageTrend ==
    /\ pc = "loop"
    /\ i = Len(tweet_df)
    /\ IF all_normalized_series = << >>
       THEN /\ pc' = "done"
            /\ UNCHANGED << mean_impact, avg_trace, agg_peak >>
       ELSE /\ mean_impact' =
                   GroupByMean(RoundHours(Flatten(all_normalized_series)))
            /\ LET agg_post_tweet == PositiveRows(mean_impact')
               IN  IF agg_post_tweet = << >>
                   THEN /\ pc' = "done"
                        /\ UNCHANGED << avg_trace, agg_peak >>
                   ELSE IF MaxPositions(agg_post_tweet) = {}
                   THEN /\ pc' = "raised"
                        /\ UNCHANGED << avg_trace, agg_peak >>
                   ELSE /\ pc' = "done"
                        /\ avg_trace' = Some(mean_impact')
                        /\ agg_peak' =
                               Some([agg_max_val |->
                                         agg_post_tweet[IdxMax(agg_post_tweet)]
                                             .normalized_price,
                                     agg_peak_x |->
                                         agg_post_tweet[IdxMax(agg_post_tweet)]
                                             .relative_hours])
    /\ UNCHANGED << i, t_time, window_df, price_at_tweet, series_df,
                    peak_info, all_normalized_series, max_vals >>
    /\ UNCHANGED << stock_df, tweet_df >>
    /\ UNCHANGED avg_vars
    /\ UNCHANGED date_vars
    /\ UNCHANGED util_vars
    /\ UNCHANGED inline_vars
    /\ UNCHANGED dashboard_vars

\* ------------------------------- create_tweet_impact_figure (dash/pages)
\* all_normalized_series.append(window_df[["relative_hours",
\* "normalized_price"]])
InlineSeries(window) == Project(window)

\* name=f"Tweet: {tweet['full_text'][:30]}...": a missing text (pd.NA) has
\* no slice and the subscript raises TypeError; otherwise the loop goes on.
TraceName(text) == IF text = None THEN "raised" ELSE "loop"

\* One turn of the loop of the inline create_tweet_impact_figure.  It is run
\* on the tweet _process_single_tweet has just handled, and where argsort
\* has a tie it reads the anchor argsort gave there: both copies are run by
\* one build, which sorts one array one way.  The window is appended before
\* the peak is looked for, and the trace is named after it.
inline_loop_turn ==
    /\ inline_pc = "loop"
    /\ inline_i < Len(tweet_df)
    /\ inline_i + 1 = i
    /\ inline_i' = inline_i + 1
    /\ LET t == FloorMin(tweet_df[inline_i + 1])
           slice == WindowSlice(stock_df, t)
       IN  IF slice = << >>
           THEN /\ inline_pc' = "loop"
                /\ UNCHANGED << inline_all_normalized_series,
                                inline_max_vals >>
           ELSE \E row \in TweetPriceRows(slice, t) :
                /\ Some(row.open) = price_at_tweet
                /\ LET window == Normalize(slice, t, row.open)
                       positive_hours_df == PositiveRows(window)
                   IN  /\ inline_all_normalized_series' =
                              Append(inline_all_normalized_series,
                                     InlineSeries(window))
                       /\ IF positive_hours_df = << >>
                          THEN /\ inline_pc' = TraceName(full_text[inline_i + 1])
                               /\ UNCHANGED inline_max_vals
                          ELSE IF MaxPositions(positive_hours_df) = {}
                          THEN /\ inline_pc' = "raised"
                               /\ UNCHANGED inline_max_vals
                          ELSE /\ inline_pc' = TraceName(full_text[inline_i + 1])
                               /\ inline_max_vals' =
                                      Append(inline_max_vals,
                                          [max_val |->
                                               positive_hours_df[
                                                   IdxMax(positive_hours_df)]
                                                   .normalized_price,
                                           peak_x |->
                                               positive_hours_df[
                                                   IdxMax(positive_hours_df)]
                                                   .relative_hours])
    /\ UNCHANGED << full_text, inline_mean_impact, inline_avg_trace,
                    inline_agg_peak >>
    /\ UNCHANGED << stock_df, tweet_df >>
    /\ UNCHANGED avg_vars
    /\ UNCHANGED impact_vars
    /\ UNCHANGED date_vars
    /\ UNCHANGED util_vars
    /\ UNCHANGED dashboard_vars

\* The aggregation at the end of the inline create_tweet_impact_figure.
inline_aggregate ==
    /\ inline_pc = "loop"
    /\ inline_i = Len(tweet_df)
    /\ pc # "loop"
    /\ IF inline_all_normalized_series = << >>
       THEN /\ inline_pc' = "done"
            /\ UNCHANGED << inline_mean_impact, inline_avg_trace,
                            inline_agg_peak >>
       ELSE /\ inline_mean_impact' =
                   GroupByMean(RoundHours(
                       Flatten(inline_all_normalized_series)))
            /\ LET agg_post_tweet == PositiveRows(inline_mean_impact')
               IN  IF agg_post_tweet = << >>
                   THEN /\ inline_pc' = "done"
                        /\ UNCHANGED << inline_avg_trace, inline_agg_peak >>
                   ELSE IF MaxPositions(agg_post_tweet) = {}
                   THEN /\ inline_pc' = "raised"
                        /\ UNCHANGED << inline_avg_trace, inline_agg_peak >>
                   ELSE /\ inline_pc' = "done"
                        /\ inline_avg_trace' = Some(inline_mean_impact')
                        /\ inline_agg_peak' =
                               Some([agg_max_val |->
                                         agg_post_tweet[IdxMax(agg_post_tweet)]
                                             .normalized_price,
                                     agg_peak_x |->
                                         agg_post_tweet[IdxMax(agg_post_tweet)]
                                             .relative_hours])
    /\ UNCHANGED << full_text, inline_i, inline_all_normalized_series,
                    inline_max_vals >>
    /\ UNCHANGED << stock_df, tweet_df >>
    /\ UNCHANGED avg_vars
    /\ UNCHANGED impact_vars
    /\ UNCHANGED date_vars
    /\ UNCHANGED util_vars
    /\ UNCHANGED dashboard_vars

\* ------------------------------------------------------- date conversion
\* A string is the sequence of its characters.  The dates the dashboard and
\* the tests pass: valid ones (one of them unpadded, one in the US layout),
\* a month 13, a day 32, a 29 February of a common year, a wrong separator,
\* text, and the empty string.
DateStrings ==
    { << "1", "9", "7", "0", "-", "0", "1", "-", "0", "1" >>,
      << "2", "0", "2", "3", "-", "0", "1", "-", "0", "1" >>,
      << "2", "0", "2", "3", "-", "1", "-", "1" >>,
      << "2", "0", "2", "4", "-", "1", "2", "-", "2", "5" >>,
      << "2", "0", "2", "4", "-", "0", "2", "-", "2", "9" >>,
      << "0", "1", "/", "0", "1", "/", "2", "0", "2", "4" >>,
      << "2", "0", "2", "3", "-", "1", "3", "-", "0", "1" >>,
      << "2", "0", "2", "3", "-", "0", "1", "-", "3", "2" >>,
      << "2", "0", "2", "3", "-", "0", "2", "-", "2", "9" >>,
      << "2", "0", "2", "3", "/", "0", "1", "/", "0", "1" >>,
      << "n", "o", "t", "-", "a", "-", "d", "a", "t", "e" >>,
      << >> }

DateFormats == { "%Y-%m-%d", "%m/%d/%Y" }

\* Seconds east of UTC of the local timezone at the parsed date.
TzOffsets == { -18000, 0, 3600 }

\* The strings of a created_at column.
ColumnStrings ==
    { << "1", "9", "7", "0", "-", "0", "1", "-", "0", "1" >>,
      << "2", "0", "2", "3", "-", "0", "1", "-", "0", "1" >>,
      << "2", "0", "2", "3", "-", "1", "3", "-", "0", "1" >>,
      << "n", "o", "t", "-", "a", "-", "d", "a", "t", "e" >> }

Columns == UNION { [1..n -> ColumnStrings] : n \in 0..MaxRows }

DigitValue(c) ==
    CASE c = "0" -> 0 [] c = "1" -> 1 [] c = "2" -> 2 [] c = "3" -> 3
      [] c = "4" -> 4 [] c = "5" -> 5 [] c = "6" -> 6 [] c = "7" -> 7
      [] c = "8" -> 8 [] c = "9" -> 9 [] OTHER -> -1

\* The fields of s between the separators.
RECURSIVE Split(_, _)
Split(s, sep) ==
    IF s = << >> THEN << << >> >>
    ELSE LET rest == Split(Tail(s), sep)
         IN  IF Head(s) = sep
             THEN << << >> >> \o rest
             ELSE << << Head(s) >> \o rest[1] >> \o Tail(rest)

\* The number a field of digits denotes; -1 when it is not made of digits.
RECURSIVE Number(_)
Number(f) ==
    IF f = << >> THEN 0
    ELSE LET front == Number(SubSeq(f, 1, Len(f) - 1))
             last == DigitValue(f[Len(f)])
         IN  IF front < 0 \/ last < 0 THEN -1 ELSE 10 * front + last

\* The separator and the order of the directives of a format.
Separator(fmt) == IF fmt = "%Y-%m-%d" THEN "-" ELSE "/"
Directives(fmt) ==
    IF fmt = "%Y-%m-%d" THEN << "Y", "m", "d" >> ELSE << "m", "d", "Y" >>

IsLeap(y) == y % 4 = 0 /\ (y % 100 # 0 \/ y % 400 = 0)

\* Mutant: every month has 31 days.
DaysInMonth31(y, m) == 31

DaysInMonth(y, m) ==
    IF m = 2 THEN (IF IsLeap(y) THEN 29 ELSE 28)
    ELSE IF m \in { 4, 6, 9, 11 } THEN 30 ELSE 31

\* datetime.strptime(date_string, date_format): the date, or None when
\* strptime raises ValueError.  %Y takes four digits, %m and %d one or two;
\* the values must form a calendar date.
Strptime(s, fmt) ==
    LET fields == Split(s, Separator(fmt))
        At(d) == CHOOSE k \in 1..3 : Directives(fmt)[k] = d
        year == Number(fields[At("Y")])
        month == Number(fields[At("m")])
        day == Number(fields[At("d")])
    IN  IF /\ Len(fields) = 3
           /\ Len(fields[At("Y")]) = 4
           /\ Len(fields[At("m")]) \in 1..2
           /\ Len(fields[At("d")]) \in 1..2
           /\ year >= 1
           /\ month \in 1..12
           /\ day >= 1
           /\ day <= DaysInMonth(year, month)
        THEN Some([year |-> year, month |-> month, day |-> day])
        ELSE None

\* date.toordinal(): day 1 is 0001-01-01.
RECURSIVE DaysBeforeMonth(_, _)
DaysBeforeMonth(y, m) ==
    IF m = 1 THEN 0
    ELSE DaysBeforeMonth(y, m - 1) + DaysInMonth(y, m - 1)

ToOrdinal(d) ==
    LET y == d.year - 1
    IN  y * 365 + (y \div 4) - (y \div 100) + (y \div 400)
          + DaysBeforeMonth(d.year, d.month) + d.day

EpochOrdinal == 719163
SecondsPerDay == 86400

\* aware.timestamp(): seconds from 1970-01-01T00:00:00Z to midnight UTC.
UtcTimestamp(d) == (ToOrdinal(d) - EpochOrdinal) * SecondsPerDay

\* naive.timestamp(): the datetime is taken as local time.
LocalTimestamp(d, offset) == UtcTimestamp(d) - offset

\* The outcome of a call: a return value, or the ValueError the except
\* clause raises, its message kept in parts.
Returned(v) == [raised |-> FALSE, value |-> Some(v), message |-> << >>]
InvalidDateFormat(s, fmt) ==
    [raised |-> TRUE, value |-> None,
     message |-> << "Invalid date format: ", s, ". Expected ", fmt >>]

\* formatters.convert_date_to_timestamp: replace(tzinfo=timezone.utc) before
\* timestamp().
formatters_convert_date_to_timestamp ==
    /\ ts_formatters = None
    /\ ts_formatters' =
          Some(IF Strptime(date_string, date_format) = None
               THEN InvalidDateFormat(date_string, date_format)
               ELSE Returned(
                        UtcTimestamp(Strptime(date_string, date_format)[1])))
    /\ UNCHANGED << tz_offset, date_string, date_format, ts_processing,
                    created_at, ts_column >>
    /\ UNCHANGED << stock_df, tweet_df >>
    /\ UNCHANGED avg_vars
    /\ UNCHANGED impact_vars
    /\ UNCHANGED util_vars
    /\ UNCHANGED inline_vars
    /\ UNCHANGED dashboard_vars

\* processing.convert_date_to_timestamp: timestamp() of the naive datetime.
processing_convert_date_to_timestamp ==
    /\ ts_processing = None
    /\ ts_processing' =
          Some(IF Strptime(date_string, date_format) = None
               THEN InvalidDateFormat(date_string, date_format)
               ELSE Returned(
                        LocalTimestamp(
                            Strptime(date_string, date_format)[1],
                            tz_offset)))
    /\ UNCHANGED << tz_offset, date_string, date_format, ts_formatters,
                    created_at, ts_column >>
    /\ UNCHANGED << stock_df, tweet_df >>
    /\ UNCHANGED avg_vars
    /\ UNCHANGED impact_vars
    /\ UNCHANGED util_vars
    /\ UNCHANGED inline_vars
    /\ UNCHANGED dashboard_vars

\* pd.to_datetime(df[date_column], utc=True, errors="raise") followed by
\* astype(int) // 10**9: one row that does not parse raises, otherwise every
\* row becomes the epoch seconds of its instant, read as UTC.
ToDatetime(column) ==
    IF \E k \in 1..Len(column) : Strptime(column[k], "%Y-%m-%d") = None
    THEN [raised |-> TRUE, column |-> << >>]
    ELSE [raised |-> FALSE,
          column |-> [k \in 1..Len(column) |->
                        UtcTimestamp(Strptime(column[k], "%Y-%m-%d")[1])]]

convert_datetime_to_unix_timestamp ==
    /\ ts_column = None
    /\ ts_column' = Some(ToDatetime(created_at))
    /\ UNCHANGED << tz_offset, date_string, date_format, ts_formatters,
                    ts_processing, created_at >>
    /\ UNCHANGED << stock_df, tweet_df >>
    /\ UNCHANGED avg_vars
    /\ UNCHANGED impact_vars
    /\ UNCHANGED util_vars
    /\ UNCHANGED inline_vars
    /\ UNCHANGED dashboard_vars

\* --------------------------------------------------------- table utilities
\* Epoch seconds around the epoch, around midnight, on a 29 February and on
\* the days around it, and the 2023-01-01 of the tests.
Epochs ==
    { -1, 0, 59, 86399, 86400, 951782400, 1672531200, 1709251199,
      1709251200 }

TimestampColumns == UNION { [1..n -> Epochs] : n \in 0..MaxRows }

\* The calendar date of a day number counted from 1970-01-01.
CivilFromDays(days) ==
    LET z == days + 719468
        era == z \div 146097
        doe == z - era * 146097
        yoe == (doe - (doe \div 1460) + (doe \div 36524) - (doe \div 146096))
                   \div 365
        doy == doe - (365 * yoe + (yoe \div 4) - (yoe \div 100))
        mp == (5 * doy + 2) \div 153
        m == IF mp < 10 THEN mp + 3 ELSE mp - 9
    IN  [year |-> yoe + era * 400 + (IF m <= 2 THEN 1 ELSE 0),
         month |-> m,
         day |-> doy - ((153 * mp + 2) \div 5) + 1]

\* pd.to_datetime(seconds, unit="s", utc=True): the UTC calendar timestamp
\* of an epoch second.
FromEpoch(e) ==
    LET date == CivilFromDays(e \div SecondsPerDay)
        sod == e % SecondsPerDay
    IN  [year |-> date.year, month |-> date.month, day |-> date.day,
         hour |-> sod \div 3600,
         minute |-> (sod % 3600) \div 60,
         second |-> sod % 60]

\* Mutant: the time of day is lost (the timestamp is normalized to its date).
DatetimeToEpochDateOnly(dt) == UtcTimestamp(dt)

\* astype(int) // 10**9 of a UTC timestamp: its whole epoch seconds.
DatetimeToEpoch(dt) ==
    UtcTimestamp(dt) + dt.hour * 3600 + dt.minute * 60 + dt.second

\* utils.convert_unix_timestamp_to_datetime adds the created_at column to the
\* table it was given and returns that table.
convert_unix_timestamp_to_datetime ==
    /\ call.op = "round_trip"
    /\ upc = "start"
    /\ frame' = [timestamp |-> frame.timestamp,
                 created_at |-> [k \in 1..Len(frame.timestamp) |->
                                    FromEpoch(frame.timestamp[k])]]
    /\ upc' = "converted"
    /\ UNCHANGED << call, ret >>
    /\ UNCHANGED << stock_df, tweet_df >>
    /\ UNCHANGED avg_vars
    /\ UNCHANGED impact_vars
    /\ UNCHANGED date_vars
    /\ UNCHANGED inline_vars
    /\ UNCHANGED dashboard_vars

\* utils.convert_datetime_to_unix_timestamp on a column that already holds
\* UTC timestamps: pd.to_datetime(utc=True) leaves them as they are, and the
\* timestamp column of the copy is overwritten with their epoch seconds.
convert_datetime_column_to_unix_timestamp ==
    /\ call.op = "round_trip"
    /\ upc = "converted"
    /\ ret' = Some([created_at |-> frame.created_at,
                    timestamp |-> [k \in 1..Len(frame.created_at) |->
                                      DatetimeToEpoch(frame.created_at[k])]])
    /\ upc' = "done"
    /\ UNCHANGED << call, frame >>
    /\ UNCHANGED << stock_df, tweet_df >>
    /\ UNCHANGED avg_vars
    /\ UNCHANGED impact_vars
    /\ UNCHANGED date_vars
    /\ UNCHANGED inline_vars
    /\ UNCHANGED dashboard_vars

\* Tweet texts and keywords over a small alphabet: two letters in both
\* cases, the regular-expression wildcard and an opening parenthesis.  A text
\* may be missing; the keyword may be None or empty.
Texts ==
    { None, Some(<< >>), Some(<< "A", "b" >>), Some(<< "b", "a" >>),
      Some(<< "b" >>) }

Keywords ==
    { None, Some(<< >>), Some(<< "a" >>), Some(<< "A", "B" >>),
      Some(<< "b", "a", "b" >>), Some(<< "." >>), Some(<< "b", "." >>),
      Some(<< "(" >>) }

TextTables ==
    UNION { { [k \in 1..n |-> [id |-> k, full_text |-> t[k]]]
              : t \in [1..n -> Texts] } : n \in 0..MaxRows }

\* re.IGNORECASE on the letters of the alphabet.
Lower(c) == IF c = "A" THEN "a" ELSE IF c = "B" THEN "b" ELSE c

\* re.compile: an opening parenthesis that is never closed is an error.
PatternError(pattern) ==
    \E k \in 1..Len(pattern) :
        /\ pattern[k] = "("
        /\ \A j \in (k + 1)..Len(pattern) : pattern[j] # ")"

\* Series.str.contains(keyword, case=False): re.search with the keyword as
\* the pattern (regex=True is the default); a dot matches any character.
RegexSearch(pattern, text) ==
    \E pos \in 1..(Len(text) + 1) :
        \A j \in 1..Len(pattern) :
            /\ pos + j - 1 <= Len(text)
            /\ \/ pattern[j] = "."
               \/ Lower(pattern[j]) = Lower(text[pos + j - 1])

\* processing.filter_tweets: a keyword that is None or empty returns the
\* table itself; otherwise the rows whose text is present and matches, in
\* their order (na=False drops the rows without text).
FilterTweets(df, keyword) ==
    IF keyword = None \/ keyword = Some(<< >>)
    THEN [raised |-> FALSE, rows |-> df]
    ELSE IF PatternError(keyword[1])
    THEN [raised |-> TRUE, rows |-> << >>]
    ELSE [raised |-> FALSE,
          rows |-> Mask(df, { k \in 1..Len(df) :
                                /\ df[k].full_text # None
                                /\ RegexSearch(keyword[1],
                                               df[k].full_text[1]) })]

filter_tweets ==
    /\ call.op = "filter_tweets"
    /\ upc = "start"
    /\ ret' = Some(FilterTweets(call.df, call.keyword))
    /\ upc' = "done"
    /\ UNCHANGED << call, frame >>
    /\ UNCHANGED << stock_df, tweet_df >>
    /\ UNCHANGED avg_vars
    /\ UNCHANGED impact_vars
    /\ UNCHANGED date_vars
    /\ UNCHANGED inline_vars
    /\ UNCHANGED dashboard_vars

\* Timestamps around midnight UTC of 1970-01-02 and around the local
\* midnights one hour east and five hours west of it.
CutoffEpochs == { 82799, 82800, 86399, 86400, 104399 }

CutoffDates ==
    { << "1", "9", "7", "0", "-", "0", "1", "-", "0", "1" >>,
      << "1", "9", "7", "0", "-", "0", "1", "-", "0", "2" >> }

CutoffTables == UNION { [1..n -> CutoffEpochs] : n \in 0..MaxRows }

\* df[df[timestamp_column] < cutoff_timestamp].copy()
Before(df, cutoff_timestamp) ==
    Mask(df, { k \in 1..Len(df) : df[k] < cutoff_timestamp })

\* utils.drop_tweets_before_date: the cutoff is timestamp() of the naive
\* datetime, local midnight.
utils_drop_tweets_before_date ==
    /\ call.op = "drop_tweets_before_date"
    /\ call.module = "utils"
    /\ upc = "start"
    /\ ret' =
          Some(IF Strptime(call.cutoff_date, "%Y-%m-%d") = None
               THEN [raised |-> TRUE, error |-> "ValueError",
                     rows |-> << >>]
               ELSE [raised |-> FALSE, error |-> "",
                     rows |-> Before(call.df,
                                     LocalTimestamp(
                                         Strptime(call.cutoff_date,
                                                  "%Y-%m-%d")[1],
                                         call.tz))])
    /\ upc' = "done"
    /\ UNCHANGED << call, frame >>
    /\ UNCHANGED << stock_df, tweet_df >>
    /\ UNCHANGED avg_vars
    /\ UNCHANGED impact_vars
    /\ UNCHANGED date_vars
    /\ UNCHANGED inline_vars
    /\ UNCHANGED dashboard_vars

\* processing.drop_tweets_before_date: the module imports the class datetime
\* (from datetime import datetime), so datetime.datetime.strptime raises
\* AttributeError before anything is computed.
processing_drop_tweets_before_date ==
    /\ call.op = "drop_tweets_before_date"
    /\ call.module = "processing"
    /\ upc = "start"
    /\ ret' = Some([raised |-> TRUE, error |-> "AttributeError",
                    rows |-> << >>])
    /\ upc' = "done"
    /\ UNCHANGED << call, frame >>
    /\ UNCHANGED << stock_df, tweet_df >>
    /\ UNCHANGED avg_vars
    /\ UNCHANGED impact_vars
    /\ UNCHANGED date_vars
    /\ UNCHANGED inline_vars
    /\ UNCHANGED dashboard_vars

\* Offsets in whole seconds of a price point from its event's floored
\* minute, inside the window of RELATIVE_TIME_SPREAD_HOURS on both sides.
Offsets ==
    { -RELATIVE_TIME_SPREAD_HOURS, -61, -60, -2, -1, 0, 1, 2, 3, 9, 18, 59,
      60, 61, 3599, 3600, RELATIVE_TIME_SPREAD_HOURS - 1,
      RELATIVE_TIME_SPREAD_HOURS }

\* window_df["relative_hours"] = (window_df["timestamp"] - t_time) / 3600
RelativeHours(offset) == Div(offset, SecondsPerHour)

\* The bucketing of _add_average_trend applied to two observations of
\* price 1: relative_hours, round(4), groupby, and the post-tweet rows.
bucket_relative_hours ==
    /\ call.op = "bucket"
    /\ upc = "start"
    /\ LET agg_df ==
             RoundHours([k \in 1..2 |->
                           [relative_hours |-> RelativeHours(call.offsets[k]),
                            normalized_price |-> Div(1, 1)]])
           mean_impact_2 == GroupByMean(agg_df)
       IN  ret' = Some([keys |-> [k \in 1..2 |-> agg_df[k].relative_hours],
                        mean_impact |-> mean_impact_2,
                        agg_post_tweet |-> PositiveRows(mean_impact_2)])
    /\ upc' = "done"
    /\ UNCHANGED << call, frame >>
    /\ UNCHANGED << stock_df, tweet_df >>
    /\ UNCHANGED avg_vars
    /\ UNCHANGED impact_vars
    /\ UNCHANGED date_vars
    /\ UNCHANGED inline_vars
    /\ UNCHANGED dashboard_vars

\* -------------------------------------------------------- update_dashboard
\* The callback of the dashboard page.  The callbacks module a process has
\* loaded is mydash/pages/callbacks/home_callbacks.py or
\* dash/pages/callbacks/callbacks.py; both keep the two tables in module-level
\* names.  Tables are objects of a heap, names hold the ids of objects, and
\* the server runs two invocations whose steps interleave.
Slots == { 1, 2 }

\* The ids of the two tables the module loads when it is imported.
STOCK_DATA == << "STOCK_DATA", 0 >>
TWEET_DATA == << "TWEET_DATA", 0 >>

\* A table: its rows, its columns and the dtype of its timestamp column.
NoFrame == [rows |-> << >>, columns |-> {}, timestamp_dtype |-> "none"]

StockColumns == { "timestamp", "open", "created_at" }
TweetColumns == { "timestamp", "created_at", "full_text" }

\* Price points and tweets of 1970-01-01: one tweet minute, T0, with a price
\* point at the minute and one ten seconds later; a price of 0 is possible
\* and a text may be missing.
DashStockRows ==
    UNION { { [k \in 1..Cardinality(S) |->
                 [timestamp |-> SortedSeq(S)[k], open |-> p[SortedSeq(S)[k]]]]
              : p \in [S -> { 0, 2 }] }
            : S \in { X \in SUBSET { T0, T0 + 10 } :
                        Cardinality(X) <= MaxRows } }

DashTweetRows ==
    UNION { [1..n -> { [timestamp |-> T0 + 5, full_text |-> x]
                         : x \in { None, Some(<< "b", "a" >>) } }]
            : n \in 0..MaxRows }

Date19700101 == << "1", "9", "7", "0", "-", "0", "1", "-", "0", "1" >>
Date19700102 == << "1", "9", "7", "0", "-", "0", "1", "-", "0", "2" >>
DateMonth13 == << "1", "9", "7", "0", "-", "1", "3", "-", "0", "1" >>

\* What the date pickers and the text input can hand to the callback: a
\* missing date, a date that does not parse, a range that holds every row, a
\* range that holds none, and a keyword that is absent, a word, or not a
\* regular expression.
DashInputs ==
    << [date_from |-> None, date_to |-> Some(Date19700102),
       text_filter |-> None],
      [date_from |-> Some(DateMonth13), date_to |-> Some(Date19700102),
       text_filter |-> None],
      [date_from |-> Some(Date19700101), date_to |-> Some(Date19700102),
       text_filter |-> None],
      [date_from |-> Some(Date19700101), date_to |-> Some(Date19700102),
       text_filter |-> Some(<< "a" >>)],
      [date_from |-> Some(Date19700101), date_to |-> Some(Date19700102),
       text_filter |-> Some(<< "(" >>)],
      [date_from |-> Some(Date19700102), date_to |-> Some(Date19700102),
       text_filter |-> None] >>

\* The callbacks module of the process and its local UTC offset.
DashProcesses ==
    { [module |-> "mydash", tz |-> 0], [module |-> "dash", tz |-> 0],
      [module |-> "dash", tz |-> 3600] }

\* The outputs the callback declares, in order.
DeclaredOutputs ==
    << "price-volume-graph.figure", "tweet-impact-graph.figure",
       "kpi-total-tweets.children", "kpi-avg-price.children",
       "kpi-avg-price-during-tweet.children" >>

\* go.Figure()
EmptyFigure == [kind |-> "figure", traces |-> << >>]

\* The return of the branch taken when a date is None.
MissingDateReturn ==
    << EmptyFigure, EmptyFigure,
       "Please select both a start and end date.", "N/A", "N/A", "N/A" >>

\* mydash converts the dates with formatters.convert_date_to_timestamp
\* (midnight UTC), dash with processing.convert_date_to_timestamp (local
\* midnight); None when strptime rejects the string and ValueError is raised.
DashDateToTimestamp(module, tz, s) ==
    LET datetime_object == Strptime(s, "%Y-%m-%d")
    IN  IF datetime_object = None THEN None
        ELSE IF module = "mydash"
        THEN Some(UtcTimestamp(datetime_object[1]))
        ELSE Some(LocalTimestamp(datetime_object[1], tz))

\* (df["timestamp"] >= date_from_timestamp) & (df["timestamp"] <=
\* date_to_timestamp)
InRange(rows, from, to) ==
    { k \in 1..Len(rows) :
        rows[k].timestamp >= from /\ rows[k].timestamp <= to }

\* Mutant: indexing with a boolean mask gives a view, the result is the
\* object that was indexed.
BooleanIndexView(h, id, keep, new_id) == [heap |-> h, id |-> id]

\* df[mask]: a new table that holds the rows the mask keeps.
BooleanIndex(h, id, keep, new_id) ==
    [heap |-> [h EXCEPT ![new_id] =
                  [rows |-> Mask(h[id].rows, keep),
                   columns |-> h[id].columns,
                   timestamp_dtype |-> h[id].timestamp_dtype]],
     id |-> new_id]

\* The figure of _build_main_price_figure: the price line, one line per
\* tweet and the hover markers.
MainFigure(stock_rows, tweet_rows) ==
    [kind |-> "figure",
     traces |-> << [name |-> "Price (USD)", rows |-> stock_rows] >>
                \o [k \in 1..Len(tweet_rows) |->
                       [name |-> tweet_rows[k].full_text,
                        rows |-> << tweet_rows[k].timestamp >>]]
                \o << [name |-> "", rows |-> tweet_rows] >>]

\* The loop of create_tweet_impact_figure from tweet k on.  The tables of the
\* dashboard hold no two price points at the same distance from a tweet
\* minute, so the anchor row is one row.
RECURSIVE ImpactLoop(_, _, _, _, _)
ImpactLoop(module, tweet_rows, stock_rows, k, acc) ==
    IF acc.raised \/ k > Len(tweet_rows) THEN acc
    ELSE LET t == FloorMin(tweet_rows[k].timestamp)
             slice == WindowSlice(stock_rows, t)
         IN  IF slice = << >>
             THEN ImpactLoop(module, tweet_rows, stock_rows, k + 1, acc)
             ELSE LET row == CHOOSE r \in TweetPriceRows(slice, t) : TRUE
                      window == Normalize(slice, t, row.open)
                      positive_df == PositiveRows(window)
                  IN  IF \/ /\ positive_df # << >>
                            /\ MaxPositions(positive_df) = {}
                         \/ /\ module = "dash"
                            /\ TraceName(tweet_rows[k].full_text) = "raised"
                      THEN [acc EXCEPT !.raised = TRUE]
                      ELSE ImpactLoop(module, tweet_rows, stock_rows, k + 1,
                             [raised |-> FALSE,
                              series |-> Append(acc.series, Project(window)),
                              max_vals |->
                                  IF positive_df = << >> THEN acc.max_vals
                                  ELSE Append(acc.max_vals,
                                         [max_val |->
                                              positive_df[IdxMax(positive_df)]
                                                  .normalized_price,
                                          peak_x |->
                                              positive_df[IdxMax(positive_df)]
                                                  .relative_hours])])

\* The end of create_tweet_impact_figure: the average trend over the
\* windows the loop has collected.
AverageTrend(loop) ==
    LET mean == GroupByMean(RoundHours(Flatten(loop.series)))
    IN  IF loop.raised THEN [raised |-> TRUE]
        ELSE IF loop.series = << >> \/ PositiveRows(mean) = << >>
        THEN [raised |-> FALSE, kind |-> "figure", traces |-> loop.series,
              average |-> None]
        ELSE IF MaxPositions(PositiveRows(mean)) = {} THEN [raised |-> TRUE]
        ELSE [raised |-> FALSE, kind |-> "figure", traces |-> loop.series,
              average |-> Some(mean)]

\* processing.calculate_avg_price_at_tweet_time on the filtered tables.
AvgPriceAtTweetTime(tweet_rows, stock_rows) ==
    LET merged ==
            MergeLeft(TweetMinutes([k \in 1..Len(tweet_rows) |->
                                       tweet_rows[k].timestamp]),
                      PriceLookup(stock_rows))
    IN  IF tweet_rows = << >> \/ stock_rows = << >> THEN Zero
        ELSE IF Mean(merged) = None THEN Zero
        ELSE Mean(merged)[1]

\* f"{coin_stock_df['open'].mean():,.4f}" if not coin_stock_df.empty else
\* "N/A"
KpiPrice(stock_rows) ==
    IF stock_rows = << >> THEN "N/A"
    ELSE Round4(Div(SumSeq([k \in 1..Len(stock_rows) |-> stock_rows[k].open]),
                    Len(stock_rows)))

\* The values update_dashboard returns at its end.
Returned5(fig, impact_fig, stock_rows, tweet_rows) ==
    << fig, impact_fig, Len(tweet_rows), KpiPrice(stock_rows),
       Round4(AvgPriceAtTweetTime(tweet_rows, stock_rows)) >>

\* The mask of the keyword filter: the positions of the rows it found.
Kept(rows, found_rows) ==
    { k \in 1..Len(rows) :
        \E r \in 1..Len(found_rows) : found_rows[r] = rows[k] }

\* update_dashboard up to the text filter: the missing-date return, the two
\* date conversions, the two slices by date and the keyword filter.
update_dashboard_filter(slot) ==
    /\ calls[slot].pc = "start"
    /\ \E in \in { calls[slot].inputs } :
       IF in.date_from = None \/ in.date_to = None
       THEN /\ calls' = [calls EXCEPT ![slot].pc = "returned",
                                      ![slot].outputs = MissingDateReturn]
            /\ UNCHANGED heap
       ELSE \E from \in { DashDateToTimestamp(app_module, tz_offset,
                                               in.date_from[1]) },
               to \in { DashDateToTimestamp(app_module, tz_offset,
                                             in.date_to[1]) } :
            IF from = None \/ to = None
            THEN /\ calls' = [calls EXCEPT ![slot].pc = "raised"]
                 /\ UNCHANGED heap
            ELSE \E s \in { BooleanIndex(heap, STOCK_DATA,
                               InRange(heap[STOCK_DATA].rows, from[1], to[1]),
                               << "coin_stock_df", slot >>) } :
                 \E t \in { BooleanIndex(s.heap, TWEET_DATA,
                               InRange(heap[TWEET_DATA].rows, from[1], to[1]),
                               << "coin_tweet_df", slot >>) } :
                 \E found \in { FilterTweets(t.heap[t.id].rows,
                                             in.text_filter) } :
                 IF found.raised
                 THEN /\ calls' = [calls EXCEPT ![slot].pc = "raised"]
                      /\ heap' = t.heap
                 ELSE \E f \in { IF in.text_filter = None
                                     \/ in.text_filter = Some(<< >>)
                                  THEN t
                                  ELSE BooleanIndex(t.heap, t.id,
                                         Kept(t.heap[t.id].rows, found.rows),
                                         << "filtered", slot >>) } :
                      /\ calls' = [calls EXCEPT
                                     ![slot].pc = "filtered",
                                     ![slot].coin_stock_df = s.id,
                                     ![slot].coin_tweet_df = f.id]
                      /\ heap' = f.heap
    /\ UNCHANGED app_module
    /\ UNCHANGED << stock_df, tweet_df >>
    /\ UNCHANGED avg_vars
    /\ UNCHANGED impact_vars
    /\ UNCHANGED date_vars
    /\ UNCHANGED util_vars
    /\ UNCHANGED inline_vars

\* _build_main_price_figure (inline in dash): the figure, and the two column
\* assignments on coin_tweet_df, timestamp turned into datetimes and
\* date_display added.
update_dashboard_build(slot) ==
    /\ calls[slot].pc = "filtered"
    /\ calls' = [calls EXCEPT
                   ![slot].pc = "built",
                   ![slot].fig =
                       MainFigure(heap[calls[slot].coin_stock_df].rows,
                                  heap[calls[slot].coin_tweet_df].rows)]
    /\ heap' = [heap EXCEPT
                  ![calls[slot].coin_tweet_df] =
                      [rows |-> @.rows,
                       columns |-> @.columns \cup { "date_display" },
                       timestamp_dtype |-> "datetime64[ns]"]]
    /\ UNCHANGED app_module
    /\ UNCHANGED << stock_df, tweet_df >>
    /\ UNCHANGED avg_vars
    /\ UNCHANGED impact_vars
    /\ UNCHANGED date_vars
    /\ UNCHANGED util_vars
    /\ UNCHANGED inline_vars

\* The rest of update_dashboard: kpi_price, create_tweet_impact_figure,
\* calculate_avg_price_at_tweet_time and the return of the five values.
update_dashboard_finish(slot) ==
    /\ calls[slot].pc = "built"
    /\ \E stock_rows \in { heap[calls[slot].coin_stock_df].rows },
          tweet_rows \in { heap[calls[slot].coin_tweet_df].rows } :
       \E loop \in { ImpactLoop(app_module, tweet_rows, stock_rows, 1,
                                 [raised |-> FALSE, series |-> << >>,
                                  max_vals |-> << >>]) } :
       \E impact_fig \in { AverageTrend(loop) } :
          calls' = [calls EXCEPT
                      ![slot].pc = IF impact_fig.raised THEN "raised"
                                   ELSE "returned",
                      ![slot].outputs =
                          IF impact_fig.raised THEN << >>
                          ELSE Returned5(calls[slot].fig, impact_fig,
                                         stock_rows, tweet_rows)]
    /\ UNCHANGED << app_module, heap >>
    /\ UNCHANGED << stock_df, tweet_df >>
    /\ UNCHANGED avg_vars
    /\ UNCHANGED impact_vars
    /\ UNCHANGED date_vars
    /\ UNCHANGED util_vars
    /\ UNCHANGED inline_vars

\* ------------------------------------------------------- specifications
\* No call of the other group has been made.
FiguresIdle ==
    /\ avg_pc = "ready"
    /\ price_lookup = << >>
    /\ tweets_with_price = << >>
    /\ avg_val = Zero
    /\ pc = "loop"
    /\ i = 0
    /\ t_time = 0
    /\ window_df = << >>
    /\ price_at_tweet = None
    /\ series_df = None
    /\ peak_info = None
    /\ all_normalized_series = << >>
    /\ max_vals = << >>
    /\ mean_impact = << >>
    /\ avg_trace = None
    /\ agg_peak = None

DatesIdle ==
    /\ ts_formatters = None
    /\ ts_processing = None
    /\ ts_column = None

UtilsIdle ==
    /\ call = [op |-> "none"]
    /\ frame = [timestamp |-> << >>]
    /\ ret = None
    /\ upc = "start"

DashboardIdle ==
    /\ app_module = "none"
    /\ heap = << >>
    /\ calls = << >>

InlineIdle ==
    /\ inline_pc = "loop"
    /\ inline_i = 0
    /\ inline_all_normalized_series = << >>
    /\ inline_max_vals = << >>
    /\ inline_mean_impact = << >>
    /\ inline_avg_trace = None
    /\ inline_agg_peak = None

Init ==
    /\ stock_df \in StockFrames
    /\ tweet_df \in TweetFrames
    /\ FiguresIdle
    /\ tz_offset = 0
    /\ date_string = << >>
    /\ date_format = "%Y-%m-%d"
    /\ created_at = << >>
    /\ DatesIdle
    /\ UtilsIdle
    /\ InlineIdle
    /\ DashboardIdle
    /\ full_text = [k \in 1..Len(tweet_df) |-> Some(<< "b" >>)]

Next ==
    \/ calculate_avg_price_at_tweet_time
    \/ ProcessSingleTweet
    \/ AddAverageTrend

Spec == Init /\ [][Next]_vars

\* The date conversions on their own, over every date string, format, local
\* offset and column.
DateInit ==
    /\ stock_df = << >>
    /\ tweet_df = << >>
    /\ FiguresIdle
    /\ tz_offset \in TzOffsets
    /\ date_string \in DateStrings
    /\ date_format \in DateFormats
    /\ created_at \in Columns
    /\ DatesIdle
    /\ UtilsIdle
    /\ InlineIdle
    /\ DashboardIdle
    /\ full_text = << >>

DateNext ==
    \/ formatters_convert_date_to_timestamp
    \/ processing_convert_date_to_timestamp
    \/ convert_datetime_to_unix_timestamp

DateSpec == DateInit /\ [][DateNext]_vars

\* The table utilities on their own: one call per behaviour.
RoundTripCalls ==
    { [op |-> "round_trip", timestamps |-> c] : c \in TimestampColumns }

FilterCalls ==
    { [op |-> "filter_tweets", df |-> d, keyword |-> k]
        : d \in TextTables, k \in Keywords }

DropCalls ==
    { [op |-> "drop_tweets_before_date", module |-> m, df |-> d,
       cutoff_date |-> c, tz |-> z]
        : m \in { "utils", "processing" }, d \in CutoffTables,
          c \in CutoffDates, z \in TzOffsets }

BucketCalls ==
    { [op |-> "bucket", offsets |-> << a, b >>]
        : a \in Offsets, b \in Offsets }

UtilCalls == RoundTripCalls \cup FilterCalls \cup DropCalls \cup BucketCalls

UtilInit ==
    /\ stock_df = << >>
    /\ tweet_df = << >>
    /\ FiguresIdle
    /\ tz_offset = 0
    /\ date_string = << >>
    /\ date_format = "%Y-%m-%d"
    /\ created_at = << >>
    /\ DatesIdle
    /\ call \in UtilCalls
    /\ frame = (IF call.op = "round_trip"
                THEN [timestamp |-> call.timestamps]
                ELSE [timestamp |-> << >>])
    /\ ret = None
    /\ upc = "start"
    /\ InlineIdle
    /\ DashboardIdle
    /\ full_text = << >>

UtilNext ==
    \/ convert_unix_timestamp_to_datetime
    \/ convert_datetime_column_to_unix_timestamp
    \/ filter_tweets
    \/ utils_drop_tweets_before_date
    \/ processing_drop_tweets_before_date
    \/ bucket_relative_hours

UtilSpec == UtilInit /\ [][UtilNext]_vars

\* The two copies of create_tweet_impact_figure on the same tables, tweet by
\* tweet: the one of mydash first, the inline one after it.
EquivNext ==
    \/ (inline_i = i /\ ProcessSingleTweet)
    \/ inline_loop_turn
    \/ (inline_i = i /\ AddAverageTrend)
    \/ inline_aggregate

EquivInit ==
    /\ stock_df \in StockFrames
    /\ tweet_df \in TweetFrames
    /\ full_text \in [1..Len(tweet_df) -> { None, Some(<< "b" >>) }]
    /\ FiguresIdle
    /\ tz_offset = 0
    /\ date_string = << >>
    /\ date_format = "%Y-%m-%d"
    /\ created_at = << >>
    /\ DatesIdle
    /\ UtilsIdle
    /\ InlineIdle
    /\ DashboardIdle

EquivSpec == EquivInit /\ [][EquivNext]_vars

\* One process of the dashboard: the module it loaded, its timezone, the two
\* tables as loaded, and two invocations of the callback with their inputs
\* (the two are interchangeable, so the inputs of the first are never later
\* in DashInputs than those of the second).
HeapIds ==
    { STOCK_DATA, TWEET_DATA }
    \cup { << n, slot >> : n \in { "coin_stock_df", "coin_tweet_df",
                                   "filtered" }, slot \in Slots }

DashInit ==
    /\ stock_df = << >>
    /\ tweet_df = << >>
    /\ FiguresIdle
    /\ \E p \in DashProcesses : app_module = p.module /\ tz_offset = p.tz
    /\ date_string = << >>
    /\ date_format = "%Y-%m-%d"
    /\ created_at = << >>
    /\ DatesIdle
    /\ UtilsIdle
    /\ InlineIdle
    /\ full_text = << >>
    /\ \E sr \in DashStockRows, tr \in DashTweetRows :
          heap = [id \in HeapIds |->
                    IF id = STOCK_DATA
                    THEN [rows |-> sr, columns |-> StockColumns,
                          timestamp_dtype |-> "int64"]
                    ELSE IF id = TWEET_DATA
                    THEN [rows |-> tr, columns |-> TweetColumns,
                          timestamp_dtype |-> "int64"]
                    ELSE NoFrame]
    /\ \E a \in 1..Len(DashInputs), b \in 1..Len(DashInputs) :
          /\ a <= b
          /\ calls = [slot \in Slots |->
                        [pc |-> "start",
                         inputs |-> DashInputs[IF slot = 1 THEN a ELSE b],
                         coin_stock_df |-> STOCK_DATA,
                         coin_tweet_df |-> TWEET_DATA,
                         fig |-> EmptyFigure, outputs |-> << >>]]

DashNext ==
    \E slot \in Slots :
        \/ update_dashboard_filter(slot)
        \/ update_dashboard_build(slot)
        \/ update_dashboard_finish(slot)

DashSpec == DashInit /\ [][DashNext]_vars

\* ------------------------------------------------------------------ claims

C2_ZeroSentinel ==
    (/\ avg_pc = "done"
     /\ \/ tweet_df = << >>
        \/ stock_df = << >>
        \/ \A k \in 1..Len(tweet_df) : \A j \in 1..Len(stock_df) :
              FloorMin(tweet_df[k]) # FloorMin(stock_df[j].timestamp))
        => avg_val = [num |-> 0, den |-> 1]

\* C2 witness: both tables hold rows, every candle has a positive price, no
\* tweet matches a candle, and the call has returned.
C2_Witness ==
    /\ avg_pc = "done"
    /\ tweet_df # << >>
    /\ stock_df # << >>
    /\ \A j \in 1..Len(stock_df) : stock_df[j].open > 0
    /\ \A k \in 1..Len(tweets_with_price) : tweets_with_price[k].price = NaN
    /\ avg_val = [num |-> 0, den |-> 1]

\* C3: the minute index holds, for every floored minute of the price table,
\* exactly one row, and it carries the price of the first candle of that
\* minute in source order; a tweet of that minute is joined to that price.
C3_FirstPerMinute ==
    (avg_pc = "done" /\ tweet_df # << >> /\ stock_df # << >>) =>
        /\ \A j \in 1..Len(stock_df) :
              (\A h \in 1..(j - 1) :
                    FloorMin(stock_df[h].timestamp)
                        # FloorMin(stock_df[j].timestamp))
              => /\ Cardinality({ r \in 1..Len(price_lookup) :
                                    price_lookup[r].align_dt
                                        = FloorMin(stock_df[j].timestamp) }) = 1
                 /\ \A r \in 1..Len(price_lookup) :
                       price_lookup[r].align_dt
                           = FloorMin(stock_df[j].timestamp)
                       => price_lookup[r].price = stock_df[j].open
                 /\ \A k \in 1..Len(tweets_with_price) :
                       tweets_with_price[k].align_dt
                           = FloorMin(stock_df[j].timestamp)
                       => tweets_with_price[k].price = stock_df[j].open
        /\ \A r \in 1..Len(price_lookup) :
              \E j \in 1..Len(stock_df) :
                  price_lookup[r].align_dt = FloorMin(stock_df[j].timestamp)

\* C3 witness: a tweet lies in a minute that holds two candles of different
\* prices, and it has been joined to the first one's price.
C3_Witness ==
    /\ avg_pc = "done"
    /\ \E k \in 1..Len(tweets_with_price) :
       \E j1, j2 \in 1..Len(stock_df) :
          /\ j1 < j2
          /\ FloorMin(stock_df[j1].timestamp) = tweets_with_price[k].align_dt
          /\ FloorMin(stock_df[j2].timestamp) = tweets_with_price[k].align_dt
          /\ stock_df[j1].open # stock_df[j2].open
          /\ tweets_with_price[k].price = stock_df[j1].open

\* C4: after a call for a tweet of floored minute t, the window holds exactly
\* the candles whose timestamp lies in [t - spread, t + spread], both bounds
\* included, in the order of the price table.
C4_WindowIsInclusiveSlice ==
    (i > 0) =>
        LET t == tweet_df[i] - (tweet_df[i] % 60)
            inside == { j \in 1..Len(stock_df) :
                          /\ stock_df[j].timestamp >= t - 21600
                          /\ stock_df[j].timestamp <= t + 21600 }
        IN  /\ t_time = t
            /\ Len(window_df) = Cardinality(inside)
            /\ \A j \in inside : \E k \in 1..Len(window_df) :
                  /\ window_df[k].timestamp = stock_df[j].timestamp
                  /\ window_df[k].open = stock_df[j].open
            /\ \A k \in 1..Len(window_df) : \E j \in inside :
                  window_df[k].timestamp = stock_df[j].timestamp
            /\ \A k1, k2 \in 1..Len(window_df) : \A j1, j2 \in inside :
                  (/\ k1 < k2
                   /\ window_df[k1].timestamp = stock_df[j1].timestamp
                   /\ window_df[k2].timestamp = stock_df[j2].timestamp)
                  => j1 < j2

\* C4 witness: the price table holds a candle one second before the window
\* and one on its lower bound; the window starts with the one on the bound,
\* and an earlier window reached up to a candle on its upper bound.
C4_Witness ==
    /\ i > 1
    /\ Len(stock_df) = 3
    /\ stock_df[1].timestamp = t_time - RELATIVE_TIME_SPREAD_HOURS - 1
    /\ Len(window_df) = 2
    /\ window_df[1].timestamp = t_time - RELATIVE_TIME_SPREAD_HOURS
    /\ Len(all_normalized_series) = 2
    /\ \E k \in 1..Len(all_normalized_series[1]) :
          all_normalized_series[1][k].relative_hours = [num |-> 6, den |-> 1]

C6_NearestFirstInSeriesOrder ==
    (/\ i > 0
     /\ window_df # << >>
     /\ \A k \in 1..Len(window_df) : window_df[k].timestamp # t_time)
        => \E k \in 1..Len(window_df) :
              /\ \A j \in 1..Len(window_df) :
                    Abs(window_df[k].timestamp - t_time)
                        <= Abs(window_df[j].timestamp - t_time)
              /\ \A j \in 1..(k - 1) :
                    Abs(window_df[k].timestamp - t_time)
                        < Abs(window_df[j].timestamp - t_time)
              /\ price_at_tweet = Some(window_df[k].open)

\* C7: the returned window has one point per candle of the slice, those
\* before and at the tweet included, each with normalized_price equal to the
\* float quotient price / price_at_event and relative_hours equal to
\* (timestamp - t) / 3600.
C7_FullWindowNormalized ==
    (i > 0 /\ series_df # None) =>
        LET t == FloorMin(tweet_df[i])
            inside == { j \in 1..Len(stock_df) :
                          /\ stock_df[j].timestamp >= t - 21600
                          /\ stock_df[j].timestamp <= t + 21600 }
            out == series_df[1]
            a == price_at_tweet[1]
        IN  /\ Len(out) = Cardinality(inside)
            /\ Len(out) = Len(window_df)
            /\ \A k \in 1..Len(out) :
                  /\ out[k].relative_hours.den > 0
                  /\ out[k].relative_hours.num * 3600
                         = (window_df[k].timestamp - t)
                               * out[k].relative_hours.den
                  /\ IF a # 0
                     THEN /\ out[k].normalized_price.den > 0
                          /\ out[k].normalized_price.num * a
                                 = window_df[k].open
                                       * out[k].normalized_price.den
                     ELSE /\ out[k].normalized_price.den = 0
                          /\ out[k].normalized_price.num
                                 = (IF window_df[k].open = 0 THEN 0 ELSE 1)

\* C7 witness: a returned window of three points, one before the tweet, one
\* at the tweet and one after it, with a peak and a non-zero anchor.
C7_Witness ==
    /\ i > 0
    /\ series_df # None
    /\ peak_info # None
    /\ price_at_tweet # None
    /\ price_at_tweet[1] > 0
    /\ Len(series_df[1]) = 3
    /\ series_df[1][1].relative_hours.num < 0
    /\ series_df[1][2].relative_hours.num = 0
    /\ series_df[1][3].relative_hours.num > 0
    /\ series_df[1][1].normalized_price = [num |-> 2, den |-> 1]

\* C8 as claimed: in every window, each point whose timestamp is the tweet's
\* floored minute t has normalized_price 1.0.
C8_AnchorPointIsOne ==
    (i > 0 /\ window_df # << >>) =>
        \A k \in 1..Len(window_df) :
            window_df[k].timestamp = t_time
            => window_df[k].normalized_price = [num |-> 1, den |-> 1]

\* C9 as claimed: the peak is absent exactly when the window has no point
\* after the tweet; when present it is the normalized price of a point after
\* the tweet that no point after the tweet exceeds, with that point's
\* relative_hours.
C9_PeakIsPostEventMax ==
    (i > 0 /\ window_df # << >>) =>
        LET after == { k \in 1..Len(window_df) :
                         window_df[k].timestamp > t_time }
        IN  /\ (peak_info = None) <=> (after = {})
            /\ peak_info # None =>
                  \E k \in after :
                      /\ window_df[k].normalized_price = peak_info[1].max_val
                      /\ window_df[k].relative_hours = peak_info[1].peak_x
                      /\ \A j \in after :
                            Leq(window_df[j].normalized_price,
                                peak_info[1].max_val)

\* C10: when no candle lies within [t - spread, t + spread] of the tweet, the
\* call returns (None, None), reads no anchor price and does not raise.
C10_EmptySliceReturnsNone ==
    (/\ i > 0
     /\ \A j \in 1..Len(stock_df) :
           \/ stock_df[j].timestamp < FloorMin(tweet_df[i]) - 21600
           \/ stock_df[j].timestamp > FloorMin(tweet_df[i]) + 21600)
        => /\ series_df = None
           /\ peak_info = None
           /\ price_at_tweet = None
           /\ pc # "raised"

\* C10 witness: the price table holds candles, none of them within the
\* window of the tweet just processed, and the call returned (None, None).
C10_Witness ==
    /\ i > 0
    /\ stock_df # << >>
    /\ window_df = << >>
    /\ series_df = None
    /\ peak_info = None
    /\ pc # "raised"

\* C11 as claimed: when the price at the tweet's anchor is 0, the call fails
\* with an error and returns no window.
C11_ZeroAnchorFails ==
    (/\ i > 0
     /\ price_at_tweet = Some(0)) =>
        /\ pc = "raised"
        /\ series_df = None

\* C12 as claimed: for each distinct relative_hours rounded to 4 decimals over
\* all collected windows there is exactly one bucket, and its value is the
\* arithmetic mean (sum over count) of all points that round to its key.
C12_BucketIsMeanOfAllPoints ==
    (pc = "done" /\ all_normalized_series # << >>) =>
        LET pts == Flatten(all_normalized_series)
            \* h rounds to key: key is a whole number of 1e-4 within half a
            \* unit of h
            Near(h, key) ==
                /\ (10000 * key.num) % key.den = 0
                /\ Abs(h.num * key.den - key.num * h.den)
                       <= (h.den * key.den) \div 20000
            Of(b) == { k \in 1..Len(pts) :
                         Near(pts[k].relative_hours,
                              mean_impact[b].relative_hours) }
            Total(b) ==
                SumFloats([k \in 1..Cardinality(Of(b)) |->
                              Mask(pts, Of(b))[k].normalized_price])
        IN  /\ \A k \in 1..Len(pts) :
                  Cardinality({ b \in 1..Len(mean_impact) : k \in Of(b) }) = 1
            /\ \A b \in 1..Len(mean_impact) :
                  /\ Of(b) # {}
                  /\ mean_impact[b].normalized_price =
                        IF IsNaN(Total(b)) \/ IsInf(Total(b)) THEN Total(b)
                        ELSE Div(Total(b).num,
                                 Total(b).den * Cardinality(Of(b)))

\* C13: the keys of the aggregate curve are unique and strictly increasing.
C13_KeysStrictlyIncreasing ==
    \A a, b \in 1..Len(mean_impact) :
        a < b => /\ mean_impact[a].relative_hours.den > 0
                 /\ mean_impact[b].relative_hours.den > 0
                 /\ mean_impact[a].relative_hours.num
                        * mean_impact[b].relative_hours.den
                    < mean_impact[b].relative_hours.num
                        * mean_impact[a].relative_hours.den

\* A curve of at least three buckets, one of which merges points of two
\* different windows.
C13_Witness ==
    /\ pc = "done"
    /\ Len(mean_impact) >= 3
    /\ Len(all_normalized_series) = 2
    /\ Len(mean_impact) < Len(Flatten(all_normalized_series))
    /\ tweet_df[1] > tweet_df[2]

\* C14: the aggregate peak is the bucket of maximal mean among the buckets
\* with relative_hours > 0: no such bucket has a greater mean, a bucket with
\* relative_hours <= 0 is never the peak, and the peak's value and hours come
\* from one bucket.
C14_AggPeakIsPositiveBucketMax ==
    (pc = "done" /\ all_normalized_series # << >>) =>
        LET post == { b \in 1..Len(mean_impact) :
                        mean_impact[b].relative_hours.num > 0 }
        IN  /\ (agg_peak # None) <=> (post # {})
            /\ agg_peak # None =>
                  \E b \in post :
                      /\ mean_impact[b].normalized_price
                             = agg_peak[1].agg_max_val
                      /\ mean_impact[b].relative_hours
                             = agg_peak[1].agg_peak_x
                      /\ \A c \in post :
                            ~Gt(mean_impact[c].normalized_price,
                                agg_peak[1].agg_max_val)

\* A peak over at least two buckets after the tweet, one of them below it,
\* while a bucket at or before the tweet has a greater mean than the peak.
C14_Witness ==
    /\ pc = "done"
    /\ agg_peak # None
    /\ \E b \in 1..Len(mean_impact) :
          /\ mean_impact[b].relative_hours.num <= 0
          /\ Gt(mean_impact[b].normalized_price, agg_peak[1].agg_max_val)
    /\ \E b \in 1..Len(mean_impact) :
          /\ mean_impact[b].relative_hours.num > 0
          /\ Gt(agg_peak[1].agg_max_val, mean_impact[b].normalized_price)

C16_SkipAndContinue ==
    LET T(k) == tweet_df[k] - (tweet_df[k] % 60)
        Slice(k) == { j \in 1..Len(stock_df) :
                        /\ stock_df[j].timestamp >= T(k) - 21600
                        /\ stock_df[j].timestamp <= T(k) + 21600 }
        Handled == IF pc = "loop" THEN 1..i ELSE 1..Len(tweet_df)
        Yielding == SortedSeq({ k \in Handled : Slice(k) # {} })
        HasPost(k) == \E j \in Slice(k) : stock_df[j].timestamp > T(k)
    IN  /\ (i > 0 /\ Slice(i) = {}) => pc # "raised"
        /\ Len(all_normalized_series) = Len(Yielding)
        /\ \A m \in 1..Len(Yielding) :
              m <= Len(all_normalized_series) =>
                 LET w == all_normalized_series[m]
                     rows == Mask(stock_df, Slice(Yielding[m]))
                 IN  /\ Len(w) = Len(rows)
                     /\ \A r \in 1..Len(rows) :
                           r <= Len(w) =>
                              w[r].relative_hours =
                                 Div(rows[r].timestamp - T(Yielding[m]), 3600)
        /\ Len(max_vals) =
              Cardinality({ k \in Handled : Slice(k) # {} /\ HasPost(k) })

\* C17: when no window was collected, the aggregation step ends the run
\* normally with an empty curve, no average trace and no peak.
C17_EmptyListGivesEmptyCurve ==
    [][(/\ pc = "loop"
        /\ i = Len(tweet_df)
        /\ all_normalized_series = << >>) =>
           /\ pc' = "done"
           /\ mean_impact' = << >>
           /\ avg_trace' = None
           /\ agg_peak' = None]_vars

\* The aggregation ran on an empty list although the price table and the
\* tweet table were not empty: every event was skipped.
C17_Witness ==
    /\ pc = "done"
    /\ all_normalized_series = << >>
    /\ tweet_df # << >>
    /\ stock_df # << >>

C19_MidnightUtcInEveryModule ==
    LET Known ==
          { [s |-> << "1", "9", "7", "0", "-", "0", "1", "-", "0", "1" >>,
             f |-> "%Y-%m-%d", ts |-> 0],
            [s |-> << "2", "0", "2", "3", "-", "0", "1", "-", "0", "1" >>,
             f |-> "%Y-%m-%d", ts |-> 1672531200],
            [s |-> << "2", "0", "2", "3", "-", "1", "-", "1" >>,
             f |-> "%Y-%m-%d", ts |-> 1672531200],
            [s |-> << "2", "0", "2", "4", "-", "1", "2", "-", "2", "5" >>,
             f |-> "%Y-%m-%d", ts |-> 1735084800],
            [s |-> << "2", "0", "2", "4", "-", "0", "2", "-", "2", "9" >>,
             f |-> "%Y-%m-%d", ts |-> 1709164800],
            [s |-> << "0", "1", "/", "0", "1", "/", "2", "0", "2", "4" >>,
             f |-> "%m/%d/%Y", ts |-> 1704067200] }
    IN  \A e \in Known :
            (date_string = e.s /\ date_format = e.f) =>
                \A r \in { ts_formatters, ts_processing } :
                    r # None => /\ ~r[1].raised
                                /\ r[1].value = Some(e.ts)

C21_RoundTrip ==
    /\ upc = "done" /\ call.op = "round_trip" =>
          /\ ret # None
          /\ ret[1].timestamp = call.timestamps
    /\ upc # "start" /\ call.op = "round_trip" =>
          \A k \in 1..Len(call.timestamps) :
              call.timestamps[k] = 1672531200 =>
                  frame.created_at[k] =
                      [year |-> 2023, month |-> 1, day |-> 1,
                       hour |-> 0, minute |-> 0, second |-> 0]

\* A second before the epoch and the last second of a 29 February made the
\* round trip.
C21_Witness ==
    /\ upc = "done"
    /\ call.op = "round_trip"
    /\ call.timestamps = << -1, 1709251199 >>
    /\ frame.created_at[1] = [year |-> 1969, month |-> 12, day |-> 31,
                              hour |-> 23, minute |-> 59, second |-> 59]
    /\ frame.created_at[2] = [year |-> 2024, month |-> 2, day |-> 29,
                              hour |-> 23, minute |-> 59, second |-> 59]

\* C25 as claimed: the keyword filter returns exactly the rows whose text is
\* present and contains the keyword, letter case ignored, in their original
\* order; with an empty keyword it returns every row unchanged.
C25_KeywordFilter ==
    (upc = "done" /\ call.op = "filter_tweets") =>
        LET kw == IF call.keyword = None THEN << >> ELSE call.keyword[1]
            Fold(c) == IF c = "A" THEN "a" ELSE IF c = "B" THEN "b" ELSE c
            Contains(text) ==
                \E pos \in 1..(Len(text) + 1) :
                    \A j \in 1..Len(kw) :
                        /\ pos + j - 1 <= Len(text)
                        /\ Fold(kw[j]) = Fold(text[pos + j - 1])
            Wanted == { k \in 1..Len(call.df) :
                          /\ call.df[k].full_text # None
                          /\ Contains(call.df[k].full_text[1]) }
        IN  /\ ~ret[1].raised
            /\ IF kw = << >>
               THEN ret[1].rows = call.df
               ELSE /\ Len(ret[1].rows) = Cardinality(Wanted)
                    /\ \A r \in 1..Len(ret[1].rows) :
                          /\ ret[1].rows[r].id \in Wanted
                          /\ ret[1].rows[r] = call.df[ret[1].rows[r].id]
                          /\ \A q \in 1..(r - 1) :
                                ret[1].rows[q].id < ret[1].rows[r].id

\* C26 as claimed: drop_tweets_before_date, in utils and in processing,
\* returns exactly the rows whose timestamp is strictly before the timestamp
\* of the cutoff date (midnight UTC: 0 for 1970-01-01, 86400 for
\* 1970-01-02), in their order; the result is empty when every row is at or
\* after the cutoff.
C26_RowsStrictlyBeforeCutoff ==
    (upc = "done" /\ call.op = "drop_tweets_before_date") =>
        LET cutoff ==
              IF call.cutoff_date
                   = << "1", "9", "7", "0", "-", "0", "1", "-", "0", "1" >>
              THEN 0 ELSE 86400
            Wanted == { k \in 1..Len(call.df) : call.df[k] < cutoff }
        IN  /\ ~ret[1].raised
            /\ Len(ret[1].rows) = Cardinality(Wanted)
            /\ \A k \in 1..Len(call.df) :
                  (k \in Wanted) <=>
                      \E r \in 1..Len(ret[1].rows) :
                          ret[1].rows[r] = call.df[k]

\* C27 as claimed: once the aggregation has run on a non-empty collection of
\* windows, the mean curve is emitted with every bucket, whether or not a
\* bucket lies after the event; without such a bucket only the peak is
\* absent.
C27_CurveEmittedWithoutPostBucket ==
    (pc = "done" /\ all_normalized_series # << >>) =>
        /\ avg_trace = Some(mean_impact)
        /\ mean_impact # << >>
        /\ (PositiveRows(mean_impact) = << >>) => agg_peak = None

\* C29: two observations fall into the same bucket exactly when their
\* whole-second offsets are equal, and an offset of one second or more has a
\* key greater than 0, so it is one of the post-tweet rows.
C29_BucketsSeparateSeconds ==
    (upc = "done" /\ call.op = "bucket") =>
        LET a == call.offsets[1]
            b == call.offsets[2]
            keys == ret[1].keys
        IN  /\ (keys[1] = keys[2]) <=> (a = b)
            /\ Len(ret[1].mean_impact) = (IF a = b THEN 1 ELSE 2)
            /\ \A k \in 1..2 :
                  call.offsets[k] >= 1 =>
                      /\ Gt(keys[k], Zero)
                      /\ \E r \in 1..Len(ret[1].agg_post_tweet) :
                            ret[1].agg_post_tweet[r].relative_hours = keys[k]

\* Offsets one second apart on both sides of the event, and the smallest
\* positive offset next to the event itself.
C29_Witness ==
    /\ upc = "done"
    /\ call.op = "bucket"
    /\ call.offsets = << 0, 1 >>
    /\ ret[1].keys = << Div(0, 1), Div(3, 10000) >>
    /\ Len(ret[1].agg_post_tweet) = 1

\* C23: no step of the core operations changes the price series it was
\* passed: the rows, their order and their columns (timestamp, open) stay as
\* they were; align_dt, normalized_price and relative_hours exist only in
\* the tables the operations build themselves.
C23_PriceSeriesUntouched ==
    [][/\ stock_df' = stock_df
       /\ \A k \in 1..Len(stock_df') :
             DOMAIN stock_df'[k] = { "timestamp", "open" }]_vars

\* All three operations have run and each has built its derived table.
C23_Witness ==
    /\ pc = "done"
    /\ avg_pc = "done"
    /\ Len(stock_df) = 2
    /\ \A k \in 1..Len(stock_df) :
          DOMAIN stock_df[k] = { "timestamp", "open" }
    /\ price_lookup # << >>
    /\ \A k \in 1..Len(price_lookup) : "align_dt" \in DOMAIN price_lookup[k]
    /\ window_df # << >>
    /\ \A k \in 1..Len(window_df) :
          { "normalized_price", "relative_hours" } \subseteq DOMAIN window_df[k]
    /\ avg_trace # None

\* C28 as claimed: run on the same event list and price series, the inline
\* create_tweet_impact_figure and the one built from _process_single_tweet
\* and _add_average_trend hold the same windows and the same peaks, in the
\* same order, after every tweet; they end the same way (both return or both
\* raise), and when they return the aggregate curve, the trace drawn from it
\* and its peak are the same.
C28_SameWindowsPeaksAndCurve ==
    /\ (inline_i = i /\ pc = "loop" /\ inline_pc = "loop") =>
          /\ inline_all_normalized_series = all_normalized_series
          /\ inline_max_vals = max_vals
    /\ (inline_i = i /\ pc # "loop" /\ inline_pc # "loop") =>
          /\ inline_pc = pc
          /\ pc = "done" =>
                /\ inline_all_normalized_series = all_normalized_series
                /\ inline_max_vals = max_vals
                /\ inline_mean_impact = mean_impact
                /\ inline_avg_trace = avg_trace
                /\ inline_agg_peak = agg_peak

\* C22 as claimed: an invocation whose date input is missing or does not
\* parse, or whose filters left no price point or no tweet, ends by
\* returning its outputs (placeholders for a missing date), never by an
\* exception.
C22_DegradesWithoutException ==
    \A slot \in Slots :
        LET in == calls[slot].inputs
            missing == in.date_from = None \/ in.date_to = None
            malformed ==
                /\ ~missing
                /\ \/ Strptime(in.date_from[1], "%Y-%m-%d") = None
                   \/ Strptime(in.date_to[1], "%Y-%m-%d") = None
            empty ==
                /\ calls[slot].pc \in { "built", "returned", "raised" }
                /\ ~missing
                /\ ~malformed
                /\ \/ heap[calls[slot].coin_stock_df].rows = << >>
                   \/ heap[calls[slot].coin_tweet_df].rows = << >>
        IN  (missing \/ malformed \/ empty) =>
                /\ calls[slot].pc # "raised"
                /\ (calls[slot].pc = "returned" /\ missing) =>
                       /\ calls[slot].outputs[1] = EmptyFigure
                       /\ calls[slot].outputs[2] = EmptyFigure

\* C30 as claimed: whenever update_dashboard returns, it returns as many
\* values as the callback declares outputs, five, the two figures first and
\* the three KPI values after them.
C30_FiveValuesOnEveryReturn ==
    \A slot \in Slots :
        calls[slot].pc = "returned" =>
            /\ Len(calls[slot].outputs) = Len(DeclaredOutputs)
            /\ Len(DeclaredOutputs) = 5
            /\ calls[slot].outputs[1].kind = "figure"
            /\ calls[slot].outputs[2].kind = "figure"

\* C24: no step of any invocation changes the module-level STOCK_DATA or
\* TWEET_DATA, and an invocation that ends, however its steps were
\* interleaved with the other one's, ends with the outcome and the outputs
\* the same call has when it runs alone on the two tables.
C24_InvocationsIndependent ==
    [][/\ heap'[STOCK_DATA] = heap[STOCK_DATA]
       /\ heap'[TWEET_DATA] = heap[TWEET_DATA]
       /\ \A slot \in Slots :
             (/\ calls[slot].pc = "built"
              /\ calls'[slot].pc \in { "returned", "raised" }) =>
                \E in \in { calls[slot].inputs } :
                \E from \in { DashDateToTimestamp(app_module, tz_offset,
                                                  in.date_from[1]) },
                   to \in { DashDateToTimestamp(app_module, tz_offset,
                                                in.date_to[1]) } :
                \E stock_rows \in
                       { Mask(heap[STOCK_DATA].rows,
                              InRange(heap[STOCK_DATA].rows,
                                      from[1], to[1])) },
                   by_date \in
                       { Mask(heap[TWEET_DATA].rows,
                              InRange(heap[TWEET_DATA].rows,
                                      from[1], to[1])) } :
                \E tweet_rows \in
                       { FilterTweets(by_date, in.text_filter).rows } :
                \E impact_fig \in
                       { AverageTrend(
                             ImpactLoop(app_module, tweet_rows, stock_rows, 1,
                                        [raised |-> FALSE, series |-> << >>,
                                         max_vals |-> << >>])) } :
                    IF impact_fig.raised
                    THEN calls'[slot].pc = "raised"
                    ELSE /\ calls'[slot].pc = "returned"
                         /\ calls'[slot].outputs =
                                Returned5(MainFigure(stock_rows, tweet_rows),
                                          impact_fig, stock_rows,
                                          tweet_rows)]_vars

\* One invocation has returned its five values while the other, which has
\* filtered by keyword and written its columns, is still under way; both
\* worked on tables with rows, and the module-level tables are as loaded.
C24_Witness ==
    /\ calls[1].pc = "returned"
    /\ Len(calls[1].outputs) = 5
    /\ calls[1].outputs[3] = 2
    /\ calls[2].pc = "built"
    /\ calls[2].coin_tweet_df = << "filtered", 2 >>
    /\ Len(heap[<< "filtered", 2 >>].rows) = 1
    /\ heap[<< "filtered", 2 >>].timestamp_dtype = "datetime64[ns]"
    /\ heap[<< "coin_tweet_df", 1 >>].timestamp_dtype = "datetime64[ns]"
    /\ heap[TWEET_DATA].timestamp_dtype = "int64"
    /\ Len(heap[TWEET_DATA].rows) = 2
    /\ heap[TWEET_DATA].columns = TweetColumns
    /\ Len(heap[STOCK_DATA].rows) = 2

====
